---- MODULE Spec2Model ----
(***************************************************************************)
(* Model of kuka_sunrise::RobotControlClient                               *)
(* (kuka_sunrise_driver/src/kuka_sunrise/robot_control_client.cpp).        *)
(*                                                                         *)
(* The adapter is a single-threaded object driven by the hardware-interface*)
(* framework: on_init, on_activate, on_deactivate, read, write, and the    *)
(* framework's stores through the exported command interfaces.  Each is    *)
(* one action.  The FRI session (client_application_, robotState(),        *)
(* robotCommand()) is outside the translated file and is modelled at its   *)
(* interface: connect/disconnect, client_app_read, client_app_update,      *)
(* client_app_write, and the two records robotState / robotCommand.        *)
(*                                                                         *)
(* Variables whose names do not end in an underscore and are not session   *)
(* records are observation (history) variables: they record what the last  *)
(* handler did and never influence the program variables.                  *)
(***************************************************************************)
EXTENDS Integers, Sequences, FiniteSets, TLC

----
\* Bounds of the model

\* largest joint count of the hardware description handed to on_init
MaxJoints == 7
\* largest value the framework stores into receive_multiplier_
MaxMultiplier == 2
\* number of distinct frames the session can deliver
MaxFrame == 2
\* number of distinct non-zero values the framework stores in the commanded
\* position buffer (the commanded effort buffer gets zero or the largest)
MaxCmd == 1
\* how far the model follows receive_counter_ once it has run away, which it
\* does when receive_multiplier_ is lowered to or below it
MaxCounter == 2

\* KUKA::FRI::LBRState::NUMBER_OF_JOINTS
NUMBER_OF_JOINTS == 7

\* hardware_interface::HW_IF_POSITION / HW_IF_EFFORT
HW_IF_POSITION == "position"
HW_IF_EFFORT == "effort"

----
\* Values

\* the all-zero vector std::vector::resize leaves behind
Zeros(n) == [i \in 1..n |-> 0]
\* a vector of n doubles, element i holding c * (base + i): vectors of
\* different (base, c) differ in every element, and c = 0 gives the zero vector
Vec(n, base, c) == [i \in 1..n |-> c * (base + i)]

JointCounts == {MaxJoints}

\* the joint description the fixed topology asks for
GoodJoint ==
  [command_interfaces |-> <<HW_IF_POSITION, HW_IF_EFFORT>>,
   state_interfaces |-> <<HW_IF_POSITION, HW_IF_EFFORT>>]

\* joint descriptions that deviate from it, one per check of on_init
DeviantJoints ==
  { [GoodJoint EXCEPT !.command_interfaces = <<HW_IF_POSITION>>],
    [GoodJoint EXCEPT !.command_interfaces = <<HW_IF_POSITION, HW_IF_EFFORT, "velocity">>],
    [GoodJoint EXCEPT !.command_interfaces = <<HW_IF_EFFORT, HW_IF_POSITION>>],
    [GoodJoint EXCEPT !.command_interfaces = <<HW_IF_POSITION, "velocity">>],
    [GoodJoint EXCEPT !.state_interfaces = <<HW_IF_POSITION>>],
    [GoodJoint EXCEPT !.state_interfaces = <<HW_IF_EFFORT, HW_IF_POSITION>>],
    [GoodJoint EXCEPT !.state_interfaces = <<HW_IF_POSITION, "velocity">>] }

\* hardware descriptions: all joints good, or the last joint deviant
HardwareInfos ==
  { [joints |-> [i \in 1..n |-> GoodJoint]] : n \in JointCounts }
  \cup
  { [joints |-> [i \in 1..MaxJoints |-> IF i = MaxJoints THEN d ELSE GoodJoint]] :
      d \in DeviantJoints }

\* KUKA::FRI::ESessionState, in the order the frames below go through them
SessionStates ==
  <<"COMMANDING_ACTIVE", "COMMANDING_WAIT", "MONITORING_READY", "MONITORING_WAIT", "IDLE">>

\* the monitoring message of the session: what robotState() reports.
\* Frame k differs from every other frame in every array element.
Frame(k) ==
  [measuredJointPosition |-> Vec(NUMBER_OF_JOINTS, 10, k),
   measuredTorque |-> Vec(NUMBER_OF_JOINTS, 20, k),
   ipoJointPosition |-> Vec(NUMBER_OF_JOINTS, 30, k),
   trackingPerformance |-> k,
   sessionState |-> SessionStates[((k - 1) % Len(SessionStates)) + 1]]

Frames == { Frame(k) : k \in 1..MaxFrame }

\* the monitoring message before the first frame was decoded
NoFrame ==
  [measuredJointPosition |-> Zeros(NUMBER_OF_JOINTS),
   measuredTorque |-> Zeros(NUMBER_OF_JOINTS),
   ipoJointPosition |-> Zeros(NUMBER_OF_JOINTS),
   trackingPerformance |-> 0,
   sessionState |-> "IDLE"]

\* the command message before the first updateCommand
NoCommand ==
  [jointPosition |-> Zeros(NUMBER_OF_JOINTS),
   torque |-> Zeros(NUMBER_OF_JOINTS),
   torqueSet |-> FALSE]

----
VARIABLES
  lifecycle,             \* "constructed", "initialized" or "init_failed"
  info_,                 \* hardware description (info_.joints)
  hw_states_,            \* measured position buffer
  hw_torques_,           \* measured effort buffer
  hw_commands_,          \* commanded position buffer
  hw_effort_command_,    \* commanded effort buffer
  is_active_,
  receive_counter_,
  receive_multiplier_,
  torque_command_mode_,
  fri_state_,
  tracking_performance_,
  connection_open,       \* the session's UDP connection
  robotState,            \* the session's monitoring message
  robotCommand,          \* the session's outgoing command message
  lastOp,                \* name of the last handler that ran
  lastReturn,            \* what it returned
  calls,                 \* the session calls it made, in order
  callback,              \* the client callback client_app_update fired in it
  synth,                 \* number of updateCommand invocations in it
  failed,                \* the session call that reported failure in it, or "none"
  untransmitted,         \* write() calls made while active minus client_app_write calls
  run,                   \* position of the last callback in its throttle window,
                         \* which opens when receive_counter_ is 0 (0 if not runValid)
  runValid,              \* receive_multiplier_ was not changed inside that window
  noSynthRun,            \* callbacks since the later of the last updateCommand and
                         \* the last multiplier store (0 if not setWhileActive)
  setWhileActive,        \* the last multiplier store happened while active
  windowCalls            \* callbacks of each kind in the current throttle window,
                         \* recorded by phase_write only

progVars ==
  <<lifecycle, info_, hw_states_, hw_torques_, hw_commands_, hw_effort_command_,
    is_active_, receive_counter_, receive_multiplier_, torque_command_mode_,
    fri_state_, tracking_performance_, connection_open, robotState, robotCommand>>

obsVars ==
  <<lastOp, lastReturn, calls, callback, synth, failed, untransmitted,
    run, runValid, noSynthRun, setWhileActive, windowCalls>>

throttleObs == <<run, runValid, noSynthRun, setWhileActive>>

vars == <<progVars, obsVars>>

NoCalls == [command |-> 0, waitForCommand |-> 0]

\* the state buffers and the command buffers
StateBuffers == <<hw_states_, hw_torques_>>
CommandBuffers == <<hw_commands_, hw_effort_command_>>

----
\* State after construction: empty vectors, inactive, counter 0, multiplier 1,
\* command mode fixed for the whole session.
Constructed ==
  /\ lifecycle = "constructed"
  /\ hw_states_ = <<>>
  /\ hw_torques_ = <<>>
  /\ hw_commands_ = <<>>
  /\ hw_effort_command_ = <<>>
  /\ is_active_ = FALSE
  /\ receive_counter_ = 0
  /\ receive_multiplier_ = 1
  /\ fri_state_ = "IDLE"
  /\ tracking_performance_ = 0
  /\ connection_open = FALSE
  /\ robotState = NoFrame
  /\ robotCommand = NoCommand
  /\ lastOp = "construct"
  /\ lastReturn = "none"
  /\ calls = <<>>
  /\ callback = "none"
  /\ synth = 0
  /\ failed = "none"
  /\ untransmitted = 0
  /\ run = 0
  /\ runValid = TRUE
  /\ noSynthRun = 0
  /\ setWhileActive = FALSE
  /\ windowCalls = NoCalls

Init ==
  /\ info_ \in HardwareInfos
  /\ torque_command_mode_ \in BOOLEAN
  /\ Constructed

\* how often the session call c occurs in the call list cs
Count(cs, c) == Cardinality({i \in 1..Len(cs) : cs[i] = c})

\* what a handler leaves behind in the observation variables
Observe(op, ret, cs, cb, n, txf) ==
  /\ lastOp' = op
  /\ lastReturn' = ret
  /\ calls' = cs
  /\ callback' = cb
  /\ synth' = n
  /\ failed' = txf

----
\* on_init

\* the checks of on_init without the one on the second state interface
JointOk_nosecondstate(joint) ==
  /\ Len(joint.command_interfaces) = 2
  /\ joint.command_interfaces[1] = HW_IF_POSITION
  /\ joint.command_interfaces[2] = HW_IF_EFFORT
  /\ Len(joint.state_interfaces) = 2
  /\ joint.state_interfaces[1] = HW_IF_POSITION

\* the six checks on_init makes on one joint, in the order it makes them
JointOk(joint) ==
  /\ Len(joint.command_interfaces) = 2
  /\ joint.command_interfaces[1] = HW_IF_POSITION
  /\ joint.command_interfaces[2] = HW_IF_EFFORT
  /\ Len(joint.state_interfaces) = 2
  /\ joint.state_interfaces[1] = HW_IF_POSITION
  /\ joint.state_interfaces[2] = HW_IF_EFFORT

\* base_ok: the result of hardware_interface::SystemInterface::on_init
on_init ==
  /\ lifecycle = "constructed"
  /\ \E base_ok \in BOOLEAN :
       IF ~base_ok
         THEN /\ lifecycle' = "init_failed"
              /\ UNCHANGED <<hw_states_, hw_torques_, hw_commands_, hw_effort_command_>>
              /\ Observe("on_init", "ERROR", <<>>, "none", 0, "SystemInterface::on_init")
         ELSE /\ hw_states_' = Zeros(Len(info_.joints))
              /\ hw_commands_' = Zeros(Len(info_.joints))
              /\ hw_torques_' = Zeros(Len(info_.joints))
              /\ hw_effort_command_' = Zeros(Len(info_.joints))
              /\ IF \A i \in 1..Len(info_.joints) : JointOk(info_.joints[i])
                   THEN /\ lifecycle' = "initialized"
                        /\ Observe("on_init", "SUCCESS", <<>>, "none", 0, "none")
                   ELSE /\ lifecycle' = "init_failed"
                        /\ Observe("on_init", "ERROR", <<>>, "none", 0, "none")
  /\ UNCHANGED <<info_, is_active_, receive_counter_, receive_multiplier_,
                 torque_command_mode_, fri_state_, tracking_performance_,
                 connection_open, robotState, robotCommand>>
  /\ UNCHANGED <<untransmitted, throttleObs, windowCalls>>

----
\* Lifecycle: on_activate / on_deactivate

\* RobotControlClient::activate / deactivate: each only forwards to
\* ActivatableInterface, which raises or clears the activity flag.  Neither
\* touches receive_counter_.
activate == is_active_' = TRUE

\* deactivate raising the flag it finds lowered
deactivate_toggle == is_active_' = ~is_active_

\* deactivate leaving the flag alone
deactivate_noop == UNCHANGED is_active_

deactivate == is_active_' = FALSE

\* on_activate activating although connect failed
on_activate_failed_active ==
  /\ UNCHANGED connection_open
  /\ activate
  /\ Observe("on_activate", "FAILURE", <<"connect">>, "none", 0, "connect")
  /\ UNCHANGED <<hw_states_, hw_torques_, hw_commands_, hw_effort_command_>>

\* lines 87-91: connect failed
on_activate_failed ==
  /\ UNCHANGED <<is_active_, connection_open>>
  /\ Observe("on_activate", "FAILURE", <<"connect">>, "none", 0, "connect")
  /\ UNCHANGED <<hw_states_, hw_torques_, hw_commands_, hw_effort_command_>>

\* on_activate clearing the command buffers when it activates
on_activate_connected_clear ==
  /\ connection_open' = TRUE
  /\ activate
  /\ Observe("on_activate", "SUCCESS", <<"connect">>, "none", 0, "none")
  /\ hw_commands_' = Zeros(Len(hw_commands_))
  /\ hw_effort_command_' = Zeros(Len(hw_effort_command_))
  /\ UNCHANGED <<hw_states_, hw_torques_>>

\* lines 92-94: connected
on_activate_connected ==
  /\ connection_open' = TRUE
  /\ activate
  /\ Observe("on_activate", "SUCCESS", <<"connect">>, "none", 0, "none")
  /\ UNCHANGED <<hw_states_, hw_torques_, hw_commands_, hw_effort_command_>>

\* The framework activates an inactive component.  connected: the result of
\* client_application_.connect(30200, nullptr).
on_activate ==
  /\ lifecycle = "initialized"
  /\ ~is_active_
  /\ \E connected \in BOOLEAN :
       IF ~connected THEN on_activate_failed ELSE on_activate_connected
  /\ UNCHANGED <<lifecycle, info_, receive_counter_, receive_multiplier_,
                 torque_command_mode_, fri_state_, tracking_performance_,
                 robotState, robotCommand>>
  /\ UNCHANGED <<untransmitted, throttleObs, windowCalls>>

on_deactivate ==
  /\ lifecycle = "initialized"
  /\ connection_open' = FALSE
  /\ deactivate
  /\ Observe("on_deactivate", "SUCCESS", <<"disconnect">>, "none", 0, "none")
  /\ UNCHANGED <<lifecycle, info_, hw_states_, hw_torques_, hw_commands_,
                 hw_effort_command_, receive_counter_, receive_multiplier_,
                 torque_command_mode_, fri_state_, tracking_performance_,
                 robotState, robotCommand>>
  /\ UNCHANGED <<untransmitted, throttleObs, windowCalls>>

----
\* The throttle and the command synthesizer

\* command with the comparison made before the increment
\* (receive_counter_++ == receive_multiplier_)
command_postinc(counter, multiplier) ==
  IF counter = multiplier
    THEN [receive_counter |-> 0, update |-> TRUE]
    ELSE [receive_counter |-> counter + 1, update |-> FALSE]

\* command calling updateCommand in every cycle, throttling only the reset
command_eager(counter, multiplier) ==
  IF counter + 1 = multiplier
    THEN [receive_counter |-> 0, update |-> TRUE]
    ELSE [receive_counter |-> counter + 1, update |-> TRUE]

\* RobotControlClient::command: ++receive_counter_ == receive_multiplier_
\* decides whether updateCommand runs; the counter is reset only then.
\* Result: the new counter and whether updateCommand was called.
command(counter, multiplier) ==
  IF counter + 1 = multiplier
    THEN [receive_counter |-> 0, update |-> TRUE]
    ELSE [receive_counter |-> counter + 1, update |-> FALSE]

\* waitForCommand synthesizing in every cycle and leaving the counter alone
waitForCommand_own(counter, multiplier) ==
  [receive_counter |-> counter, update |-> TRUE]

\* RobotControlClient::waitForCommand: the same statement
waitForCommand(counter, multiplier) ==
  IF counter + 1 = multiplier
    THEN [receive_counter |-> 0, update |-> TRUE]
    ELSE [receive_counter |-> counter + 1, update |-> FALSE]

\* updateCommand following the session's interpolator in both modes
updateCommand_ipo(active, torque_mode, cmd, positions, efforts, state) ==
  IF ~active
    THEN cmd
    ELSE IF torque_mode
      THEN [jointPosition |-> state.ipoJointPosition,
            torque |-> efforts,
            torqueSet |-> TRUE]
      ELSE [cmd EXCEPT !.jointPosition = state.ipoJointPosition]

\* updateCommand taking the commanded position buffer in both modes
updateCommand_buffer(active, torque_mode, cmd, positions, efforts, state) ==
  IF ~active
    THEN cmd
    ELSE IF torque_mode
      THEN [jointPosition |-> positions,
            torque |-> efforts,
            torqueSet |-> TRUE]
      ELSE [cmd EXCEPT !.jointPosition = positions]

\* RobotControlClient::updateCommand: the command message it leaves behind.
\* setJointPosition / setTorque take the buffer they are handed.
updateCommand(active, torque_mode, cmd, positions, efforts, state) ==
  IF ~active
    THEN cmd
    ELSE IF torque_mode
      THEN [jointPosition |-> state.ipoJointPosition,
            torque |-> efforts,
            torqueSet |-> TRUE]
      ELSE [cmd EXCEPT !.jointPosition = positions]

\* client_app_update: the callback the session fires for its current state.
\* monitor() is not overridden by RobotControlClient and touches neither the
\* throttle nor the buffers.
client_app_update(sessionState) ==
  CASE sessionState \in {"MONITORING_WAIT", "MONITORING_READY"} -> "monitor"
    [] sessionState = "COMMANDING_WAIT" -> "waitForCommand"
    [] sessionState = "COMMANDING_ACTIVE" -> "command"
    [] OTHER -> "none"

\* the throttle step a callback makes (monitor and no callback make none)
Throttle(cb, counter, multiplier) ==
  CASE cb = "command" -> command(counter, multiplier)
    [] cb = "waitForCommand" -> waitForCommand(counter, multiplier)
    [] OTHER -> [receive_counter |-> counter, update |-> FALSE]

----
\* read

\* what client_app_read can do: deliver a frame, or fail, with the monitoring
\* message either untouched or already overwritten by the frame that failed
ReadOutcomes ==
  { [ok |-> TRUE, frame |-> f] : f \in Frames }
  \cup { [ok |-> FALSE, frame |-> f] : f \in Frames \cup {robotState} }

\* read testing the activity flag only after the frame pull
read_inactive_pull ==
  /\ UNCHANGED <<hw_states_, hw_torques_, fri_state_, tracking_performance_>>
  /\ UNCHANGED <<hw_commands_, hw_effort_command_>>
  /\ Observe("read", "ERROR", <<"client_app_read">>, "none", 0, "none")

\* lines 144-148: not active
read_inactive ==
  /\ UNCHANGED <<hw_states_, hw_torques_, fri_state_, tracking_performance_>>
  /\ UNCHANGED <<hw_commands_, hw_effort_command_>>
  /\ Observe("read", "ERROR", <<>>, "none", 0, "none")

\* read copying the measured arrays before it tests the result of the pull
read_failed_copy ==
  /\ hw_states_' = SubSeq(robotState'.measuredJointPosition, 1, NUMBER_OF_JOINTS)
  /\ hw_torques_' = SubSeq(robotState'.measuredTorque, 1, NUMBER_OF_JOINTS)
  /\ UNCHANGED <<fri_state_, tracking_performance_>>
  /\ UNCHANGED <<hw_commands_, hw_effort_command_>>
  /\ Observe("read", "ERROR", <<"client_app_read">>, "none", 0, "client_app_read")

\* lines 150-153: the frame pull failed
read_failed ==
  /\ UNCHANGED <<hw_states_, hw_torques_, fri_state_, tracking_performance_>>
  /\ UNCHANGED <<hw_commands_, hw_effort_command_>>
  /\ Observe("read", "ERROR", <<"client_app_read">>, "none", 0, "client_app_read")

\* read with the two measured arrays taken from each other's source
read_ok_swapped ==
  /\ hw_states_' = SubSeq(robotState'.measuredTorque, 1, NUMBER_OF_JOINTS)
  /\ hw_torques_' = SubSeq(robotState'.measuredJointPosition, 1, NUMBER_OF_JOINTS)
  /\ tracking_performance_' = robotState'.trackingPerformance
  /\ fri_state_' = robotState'.sessionState
  /\ UNCHANGED <<hw_commands_, hw_effort_command_>>
  /\ Observe("read", "OK", <<"client_app_read">>, "none", 0, "none")

\* read seeding the position command buffer with the measured position
read_ok_seed_commands ==
  /\ hw_states_' = SubSeq(robotState'.measuredJointPosition, 1, NUMBER_OF_JOINTS)
  /\ hw_torques_' = SubSeq(robotState'.measuredTorque, 1, NUMBER_OF_JOINTS)
  /\ tracking_performance_' = robotState'.trackingPerformance
  /\ fri_state_' = robotState'.sessionState
  /\ hw_commands_' = SubSeq(robotState'.measuredJointPosition, 1, Len(hw_commands_))
  /\ UNCHANGED hw_effort_command_
  /\ Observe("read", "OK", <<"client_app_read">>, "none", 0, "none")

\* lines 155-168: copy NUMBER_OF_JOINTS measured values and the status;
\* the command buffers are not assigned
read_ok ==
  /\ hw_states_' = SubSeq(robotState'.measuredJointPosition, 1, NUMBER_OF_JOINTS)
  /\ hw_torques_' = SubSeq(robotState'.measuredTorque, 1, NUMBER_OF_JOINTS)
  /\ tracking_performance_' = robotState'.trackingPerformance
  /\ fri_state_' = robotState'.sessionState
  /\ UNCHANGED <<hw_commands_, hw_effort_command_>>
  /\ Observe("read", "OK", <<"client_app_read">>, "none", 0, "none")

read ==
  /\ lifecycle = "initialized"
  /\ IF ~is_active_
       THEN read_inactive /\ UNCHANGED robotState
       ELSE \E r \in ReadOutcomes :
              /\ robotState' = r.frame
              /\ IF ~(connection_open /\ r.ok) THEN read_failed ELSE read_ok
  /\ UNCHANGED <<lifecycle, info_, is_active_, receive_counter_,
                 receive_multiplier_, torque_command_mode_, connection_open,
                 robotCommand>>
  /\ UNCHANGED <<untransmitted, throttleObs, windowCalls>>

----
\* write

\* the observation of the throttle after a write that fired callback cb
\* with result t (the record command / waitForCommand return)
ObserveThrottle(cb, t) ==
  IF cb \in {"command", "waitForCommand"}
    THEN /\ run' = IF receive_counter_ = 0 THEN 1 ELSE IF runValid THEN run + 1 ELSE 0
         /\ runValid' = IF receive_counter_ = 0 THEN TRUE ELSE runValid
         /\ noSynthRun' = IF t.update \/ ~setWhileActive THEN 0 ELSE noSynthRun + 1
         /\ UNCHANGED setWhileActive
    ELSE UNCHANGED throttleObs

\* lines 175-178: not active
write_inactive ==
  /\ UNCHANGED <<receive_counter_, robotCommand>>
  /\ Observe("write", "ERROR", <<>>, "none", 0, "none")
  /\ UNCHANGED <<untransmitted, throttleObs, windowCalls>>

\* write sending a frame only in the cycles that synthesized a command
write_active_skip(sent) ==
  LET cb == client_app_update(robotState.sessionState)
      t == Throttle(cb, receive_counter_, receive_multiplier_)
  IN /\ receive_counter_' = t.receive_counter
     /\ robotCommand' =
          IF t.update
            THEN updateCommand(is_active_, torque_command_mode_, robotCommand,
                               hw_commands_, hw_effort_command_, robotState)
            ELSE robotCommand
     /\ Observe("write", "OK",
                IF t.update THEN <<"client_app_update", "client_app_write">>
                            ELSE <<"client_app_update">>,
                cb, IF t.update THEN 1 ELSE 0,
                IF sent \/ ~t.update THEN "none" ELSE "client_app_write")
     /\ untransmitted' = untransmitted + 1 - Count(calls', "client_app_write")
     /\ ObserveThrottle(cb, t)

\* lines 180-186: client_app_update fires the callback for the session state,
\* client_app_write is told to send; its result (sent) is discarded.
write_active(sent) ==
  LET cb == client_app_update(robotState.sessionState)
      t == Throttle(cb, receive_counter_, receive_multiplier_)
  IN /\ receive_counter_' = t.receive_counter
     /\ robotCommand' =
          IF t.update
            THEN updateCommand(is_active_, torque_command_mode_, robotCommand,
                               hw_commands_, hw_effort_command_, robotState)
            ELSE robotCommand
     /\ Observe("write", "OK", <<"client_app_update", "client_app_write">>,
                cb, IF t.update THEN 1 ELSE 0,
                IF sent THEN "none" ELSE "client_app_write")
     /\ untransmitted' = untransmitted + 1 - Count(calls', "client_app_write")
     /\ ObserveThrottle(cb, t)

write ==
  /\ lifecycle = "initialized"
  /\ IF ~is_active_
       THEN write_inactive
       ELSE /\ receive_counter_ < receive_multiplier_ \/ receive_counter_ < MaxCounter
            /\ \E sent \in BOOLEAN : write_active(sent)
            /\ UNCHANGED windowCalls
  /\ UNCHANGED <<lifecycle, info_, hw_states_, hw_torques_, hw_commands_,
                 hw_effort_command_, is_active_, receive_multiplier_,
                 torque_command_mode_, fri_state_, tracking_performance_,
                 connection_open, robotState>>

----
\* The framework's stores through the exported command interfaces

\* "timing"/"receive_multiplier" -> &receive_multiplier_.  The interface is
\* a double the framework may store anything into; the model stores the
\* positive integers, the values the data model admits.
set_receive_multiplier ==
  /\ lifecycle = "initialized"
  /\ \E m \in 1..MaxMultiplier :
       /\ receive_multiplier_' = m
       /\ IF m = receive_multiplier_ \/ receive_counter_ = 0
            THEN UNCHANGED <<run, runValid>>
            ELSE run' = 0 /\ runValid' = FALSE
  /\ noSynthRun' = 0
  /\ setWhileActive' = is_active_
  /\ Observe("set_receive_multiplier", "none", <<>>, "none", 0, "none")
  /\ UNCHANGED <<lifecycle, info_, hw_states_, hw_torques_, hw_commands_,
                 hw_effort_command_, is_active_, receive_counter_,
                 torque_command_mode_, fri_state_, tracking_performance_,
                 connection_open, robotState, robotCommand>>
  /\ UNCHANGED <<untransmitted, windowCalls>>

\* joint/"position" -> &hw_commands_[i]
set_hw_commands ==
  /\ lifecycle = "initialized"
  /\ \E c \in 0..MaxCmd : hw_commands_' = Vec(Len(hw_commands_), 40, c)
  /\ Observe("set_hw_commands", "none", <<>>, "none", 0, "none")
  /\ UNCHANGED <<lifecycle, info_, hw_states_, hw_torques_, hw_effort_command_,
                 is_active_, receive_counter_, receive_multiplier_,
                 torque_command_mode_, fri_state_, tracking_performance_,
                 connection_open, robotState, robotCommand>>
  /\ UNCHANGED <<untransmitted, throttleObs, windowCalls>>

\* joint/"effort" -> &hw_effort_command_[i]
set_hw_effort_command ==
  /\ lifecycle = "initialized"
  /\ \E c \in {0, MaxCmd} : hw_effort_command_' = Vec(Len(hw_effort_command_), 50, c)
  /\ Observe("set_hw_effort_command", "none", <<>>, "none", 0, "none")
  /\ UNCHANGED <<lifecycle, info_, hw_states_, hw_torques_, hw_commands_,
                 is_active_, receive_counter_, receive_multiplier_,
                 torque_command_mode_, fri_state_, tracking_performance_,
                 connection_open, robotState, robotCommand>>
  /\ UNCHANGED <<untransmitted, throttleObs, windowCalls>>

----
Next ==
  \/ on_init
  \/ on_activate
  \/ on_deactivate
  \/ read
  \/ write
  \/ set_receive_multiplier
  \/ set_hw_commands
  \/ set_hw_effort_command

Spec == Init /\ [][Next]_vars

\* The same component described with fewer joints than the session's
\* fixed-size arrays hold, in position-only mode.
JointsBelowSession == {1, NUMBER_OF_JOINTS - 1}

InitJoints ==
  /\ info_ \in { [joints |-> [i \in 1..n |-> GoodJoint]] : n \in JointsBelowSession }
  /\ torque_command_mode_ = FALSE
  /\ Constructed

SpecJoints == InitJoints /\ [][Next]_vars

----
\* A control loop that stores a fresh commanded position before every cycle:
\* CycleValues[k] before the k-th cycle of a throttle window, with
\* receive_multiplier_ held at the number of values.

CycleValues == <<1, 2, 3, 4>>

\* the commanded position buffer the loop stores before the next cycle
CyclePosition ==
  Vec(Len(hw_commands_), 40, CycleValues[receive_counter_ + 1])

\* The state after on_init and the framework's store of the multiplier.
InitCycle ==
  /\ lifecycle = "initialized"
  /\ info_ = [joints |-> [i \in 1..NUMBER_OF_JOINTS |-> GoodJoint]]
  /\ hw_states_ = Zeros(NUMBER_OF_JOINTS)
  /\ hw_torques_ = Zeros(NUMBER_OF_JOINTS)
  /\ hw_commands_ = Zeros(NUMBER_OF_JOINTS)
  /\ hw_effort_command_ = Zeros(NUMBER_OF_JOINTS)
  /\ is_active_ = FALSE
  /\ receive_counter_ = 0
  /\ receive_multiplier_ = Len(CycleValues)
  /\ torque_command_mode_ \in BOOLEAN
  /\ fri_state_ = "IDLE"
  /\ tracking_performance_ = 0
  /\ connection_open = FALSE
  /\ robotState = NoFrame
  /\ robotCommand = NoCommand
  /\ lastOp = "set_receive_multiplier"
  /\ lastReturn = "none"
  /\ calls = <<>>
  /\ callback = "none"
  /\ synth = 0
  /\ failed = "none"
  /\ untransmitted = 0
  /\ run = 0
  /\ runValid = TRUE
  /\ noSynthRun = 0
  /\ setWhileActive = FALSE
  /\ windowCalls = NoCalls

\* joint/"position" -> &hw_commands_[i], with the value of the next cycle
cycle_store ==
  /\ lifecycle = "initialized"
  /\ receive_counter_ < Len(CycleValues)
  /\ hw_commands_' = CyclePosition
  /\ Observe("set_hw_commands", "none", <<>>, "none", 0, "none")
  /\ UNCHANGED <<lifecycle, info_, hw_states_, hw_torques_, hw_effort_command_,
                 is_active_, receive_counter_, receive_multiplier_,
                 torque_command_mode_, fri_state_, tracking_performance_,
                 connection_open, robotState, robotCommand>>
  /\ UNCHANGED <<untransmitted, throttleObs, windowCalls>>

\* write(), called once the value of the cycle is in the buffer
cycle_write ==
  /\ receive_counter_ < Len(CycleValues)
  /\ hw_commands_ = CyclePosition
  /\ write

NextCycle ==
  \/ on_activate
  \/ on_deactivate
  \/ read
  \/ cycle_store
  \/ cycle_write
  \/ set_hw_effort_command

SpecCycle == InitCycle /\ [][NextCycle]_vars

----
\* The session passing between its phases under a fixed multiplier: the
\* callbacks of each kind are counted per throttle window.

MaxWindow == 3

\* state after on_init and the store of a multiplier, position mode
InitPhase ==
  /\ lifecycle = "initialized"
  /\ info_ = [joints |-> [i \in 1..NUMBER_OF_JOINTS |-> GoodJoint]]
  /\ hw_states_ = Zeros(NUMBER_OF_JOINTS)
  /\ hw_torques_ = Zeros(NUMBER_OF_JOINTS)
  /\ hw_commands_ = Zeros(NUMBER_OF_JOINTS)
  /\ hw_effort_command_ = Zeros(NUMBER_OF_JOINTS)
  /\ is_active_ = FALSE
  /\ receive_counter_ = 0
  /\ receive_multiplier_ \in 1..MaxWindow
  /\ torque_command_mode_ = FALSE
  /\ fri_state_ = "IDLE"
  /\ tracking_performance_ = 0
  /\ connection_open = FALSE
  /\ robotState = NoFrame
  /\ robotCommand = NoCommand
  /\ lastOp = "set_receive_multiplier"
  /\ lastReturn = "none"
  /\ calls = <<>>
  /\ callback = "none"
  /\ synth = 0
  /\ failed = "none"
  /\ untransmitted = 0
  /\ run = 0
  /\ runValid = TRUE
  /\ noSynthRun = 0
  /\ setWhileActive = FALSE
  /\ windowCalls = NoCalls

\* the window's callbacks after one more callback cb; the window opens with
\* the callback that finds receive_counter_ at 0
CallsAfter(cb) ==
  LET before == IF receive_counter_ = 0 THEN NoCalls ELSE windowCalls
  IN IF cb \in {"command", "waitForCommand"}
       THEN [before EXCEPT ![cb] = @ + 1]
       ELSE windowCalls

\* write(), with the callback it fires counted in the window
phase_write ==
  /\ lifecycle = "initialized"
  /\ IF ~is_active_
       THEN write_inactive
       ELSE /\ \E sent \in BOOLEAN : write_active(sent)
            /\ windowCalls' = CallsAfter(client_app_update(robotState.sessionState))
  /\ UNCHANGED <<lifecycle, info_, hw_states_, hw_torques_, hw_commands_,
                 hw_effort_command_, is_active_, receive_multiplier_,
                 torque_command_mode_, fri_state_, tracking_performance_,
                 connection_open, robotState>>

NextPhase ==
  \/ on_activate
  \/ on_deactivate
  \/ read
  \/ phase_write

SpecPhase == InitPhase /\ [][NextPhase]_vars

----
\* Properties

Throttled == callback \in {"command", "waitForCommand"}

\* C1: with receive_multiplier_ = M unchanged since receive_counter_ was 0,
\* the k-th write() of the window that fired command()/waitForCommand()
\* invokes updateCommand exactly when k = M (never for k < M, once for k = M),
\* and receive_counter_ is 0 after the M-th; for M = 1 that is every write().
C1_SynthesisOnMthWrite ==
  (lastOp = "write" /\ Throttled /\ runValid) =>
     /\ run \in 1..receive_multiplier_
     /\ synth = (IF run = receive_multiplier_ THEN 1 ELSE 0)
     /\ (run = receive_multiplier_ => receive_counter_ = 0)
     /\ (run < receive_multiplier_ => receive_counter_ = run)

\* the M-th write of a window with M > 1 has synthesized
C1_Witness ==
  /\ lastOp = "write" /\ Throttled /\ runValid
  /\ receive_multiplier_ > 1
  /\ run = receive_multiplier_
  /\ synth = 1

\* C2: read() and write() called while inactive return ERROR, make no session
\* call, and leave the state buffers, receive_counter_ and the outgoing
\* command message as they were.
C2_InactiveReadWriteFail ==
  [][ (~is_active_ /\ lastOp' \in {"read", "write"}) =>
        /\ lastReturn' = "ERROR"
        /\ calls' = <<>>
        /\ UNCHANGED <<hw_states_, hw_torques_, receive_counter_, robotCommand>> ]_vars

\* an inactive write() was refused after earlier cycles filled the buffers
\* and left the counter inside a window
C2_Witness ==
  /\ ~is_active_
  /\ lastOp = "write" /\ lastReturn = "ERROR"
  /\ hw_states_ /= Zeros(Len(hw_states_))
  /\ receive_counter_ > 0

\* C3: every write() made while active tells the session to send exactly one
\* frame, synthesized or not; active write() calls and client_app_write calls
\* stay equal in number.
C3_OneFramePerActiveWrite ==
  /\ untransmitted = 0
  /\ (lastOp = "write" /\ is_active_) => Count(calls, "client_app_write") = 1

\* an active write() that skipped synthesis has sent a frame
C3_Witness ==
  /\ lastOp = "write" /\ is_active_ /\ Throttled
  /\ synth = 0
  /\ Count(calls, "client_app_write") = 1

\* C4: a write() whose transmit step failed returns ERROR, and is_active_
\* stays true.
C4_TransmitFailureReported ==
  (lastOp = "write" /\ failed = "client_app_write") =>
     (lastReturn = "ERROR" /\ is_active_)

\* C5: a read() made while active whose frame pull fails returns ERROR and
\* leaves every element of the measured position and effort buffers as it was.
C5_FailedReadKeepsBuffers ==
  [][ (is_active_ /\ lastOp' = "read" /\ failed' = "client_app_read") =>
        /\ lastReturn' = "ERROR"
        /\ UNCHANGED <<hw_states_, hw_torques_>> ]_vars

\* a pull failed after the session had already decoded a frame other than
\* the one the buffers hold
C5_Witness ==
  /\ lastOp = "read" /\ failed = "client_app_read" /\ lastReturn = "ERROR"
  /\ hw_states_ /= Zeros(Len(hw_states_))
  /\ \A i \in 1..NUMBER_OF_JOINTS :
       /\ hw_states_[i] /= robotState.measuredJointPosition[i]
       /\ hw_torques_[i] /= robotState.measuredTorque[i]

\* C6: a successful on_activate leaves is_active_ true and receive_counter_ 0.
C6_ActivateResetsCounter ==
  (lastOp = "on_activate" /\ lastReturn = "SUCCESS") =>
     (is_active_ /\ receive_counter_ = 0)

\* C7: between operations receive_counter_ is in 0..receive_multiplier_-1.
C7_CounterInRange ==
  lifecycle = "initialized" => receive_counter_ \in 0..(receive_multiplier_ - 1)

\* C8: after a store of M' into receive_multiplier_ made while active,
\* updateCommand runs within M' throttled write() calls, and within M' of
\* each run after that: never M' throttled writes in a row without it.
C8_MultiplierChangeTakesEffect ==
  setWhileActive => noSynthRun < receive_multiplier_

\* C9: in position-only mode a write() that ran updateCommand leaves the
\* outgoing position equal to hw_commands_ and the torque unset.
C9_PositionOnlySynthesis ==
  (lastOp = "write" /\ synth = 1 /\ ~torque_command_mode_) =>
     /\ robotCommand.jointPosition = hw_commands_
     /\ ~robotCommand.torqueSet

\* synthesis after skipped cycles, with a buffer the framework has stored
\* into and an interpolated position that differs from it
C9_Witness ==
  /\ lastOp = "write" /\ synth = 1 /\ ~torque_command_mode_
  /\ run > 1
  /\ hw_commands_ /= Zeros(Len(hw_commands_))
  /\ robotState.ipoJointPosition /= hw_commands_
  /\ robotCommand.jointPosition = hw_commands_

\* C10: in position+torque mode a write() that ran updateCommand leaves the
\* outgoing position equal to the session's interpolated position and the
\* outgoing torque equal to hw_effort_command_.
C10_TorqueModeSynthesis ==
  (lastOp = "write" /\ synth = 1 /\ torque_command_mode_) =>
     /\ robotCommand.jointPosition = robotState.ipoJointPosition
     /\ robotCommand.torqueSet
     /\ robotCommand.torque = hw_effort_command_

\* synthesis in torque mode with both command buffers stored into and the
\* interpolated position different from the commanded one
C10_Witness ==
  /\ lastOp = "write" /\ synth = 1 /\ torque_command_mode_
  /\ hw_commands_ /= Zeros(Len(hw_commands_))
  /\ hw_effort_command_ /= Zeros(Len(hw_effort_command_))
  /\ robotState.ipoJointPosition /= hw_commands_
  /\ robotCommand.torque = hw_effort_command_

\* C11: when connect fails, on_activate returns FAILURE and leaves is_active_
\* false, and a read() or write() that follows is refused as not active,
\* with no session call.
C11_FailedConnectStaysInactive ==
  /\ []((lastOp = "on_activate" /\ failed = "connect") =>
          (lastReturn = "FAILURE" /\ ~is_active_))
  /\ [][ (lastOp = "on_activate" /\ failed = "connect"
            /\ lastOp' \in {"read", "write"}) =>
           (lastReturn' = "ERROR" /\ calls' = <<>>) ]_vars

\* a connection attempt failed on a component that had been active before
C11_Witness ==
  /\ lastOp = "on_activate" /\ failed = "connect" /\ lastReturn = "FAILURE"
  /\ ~is_active_
  /\ hw_states_ /= Zeros(Len(hw_states_))

\* C12: on_deactivate, from the active and from the inactive state alike,
\* disconnects, leaves is_active_ false and returns SUCCESS; a second
\* on_deactivate right after it changes nothing.
C12_DeactivateIdempotent ==
  /\ [](lastOp = "on_deactivate" =>
          /\ ~is_active_ /\ ~connection_open
          /\ lastReturn = "SUCCESS"
          /\ calls = <<"disconnect">>)
  /\ [][ (lastOp = "on_deactivate" /\ lastOp' = "on_deactivate") =>
           UNCHANGED vars ]_vars

\* a deactivation of a component that had been active and exchanging frames
C12_Witness ==
  /\ lastOp = "on_deactivate" /\ lastReturn = "SUCCESS"
  /\ ~is_active_ /\ ~connection_open
  /\ hw_states_ /= Zeros(Len(hw_states_))
  /\ robotCommand /= NoCommand

\* C13: once initialized, the four buffers have as many elements as the
\* hardware description has joints, whatever was read or written since.
C13_BufferLengths ==
  lifecycle = "initialized" =>
    /\ Len(hw_states_) = Len(info_.joints)
    /\ Len(hw_torques_) = Len(info_.joints)
    /\ Len(hw_commands_) = Len(info_.joints)
    /\ Len(hw_effort_command_) = Len(info_.joints)

\* C14: on_activate, whether connect succeeds or fails, and on_deactivate
\* leave the state buffers and the command buffers as they were, and an
\* on_deactivate right after an on_activate ends with is_active_ false.
C14_TransitionsKeepBuffers ==
  [][ /\ lastOp' \in {"on_activate", "on_deactivate"} =>
           UNCHANGED <<hw_states_, hw_torques_, hw_commands_, hw_effort_command_>>
      /\ (lastOp = "on_activate" /\ lastOp' = "on_deactivate") => ~is_active_' ]_vars

\* a successful activation right before a deactivation, with all four
\* buffers holding values other than the initial zeros
C14_Witness ==
  /\ lastOp = "on_activate" /\ lastReturn = "SUCCESS"
  /\ hw_states_ /= Zeros(Len(hw_states_))
  /\ hw_torques_ /= Zeros(Len(hw_torques_))
  /\ hw_commands_ /= Zeros(Len(hw_commands_))
  /\ hw_effort_command_ /= Zeros(Len(hw_effort_command_))

\* a joint that declares exactly the command interfaces position, effort
\* and the state interfaces position, effort, in that order
FixedTopology(joint) ==
  /\ joint.command_interfaces = <<HW_IF_POSITION, HW_IF_EFFORT>>
  /\ joint.state_interfaces = <<HW_IF_POSITION, HW_IF_EFFORT>>

\* C15: when the base class initializes, on_init returns ERROR exactly when
\* some joint deviates from the fixed topology, and SUCCESS otherwise.
C15_InitFailsIffDeviation ==
  (lastOp = "on_init" /\ failed /= "SystemInterface::on_init") =>
     /\ lastReturn \in {"ERROR", "SUCCESS"}
     /\ lastReturn = "ERROR" <=>
          \E i \in 1..Len(info_.joints) : ~FixedTopology(info_.joints[i])

\* on_init refused a description whose only deviation is the name of the
\* second state interface of the last joint
C15_Witness ==
  /\ lastOp = "on_init" /\ failed = "none" /\ lastReturn = "ERROR"
  /\ \A i \in 1..(Len(info_.joints) - 1) : FixedTopology(info_.joints[i])
  /\ info_.joints[Len(info_.joints)].command_interfaces = <<HW_IF_POSITION, HW_IF_EFFORT>>
  /\ info_.joints[Len(info_.joints)].state_interfaces = <<HW_IF_POSITION, "velocity">>

\* the cyclic session primitives the last handler called
CyclicCalls == Count(calls, "client_app_read") + Count(calls, "client_app_write")

\* C16: client_app_read and client_app_write are called only by handlers
\* running while is_active_ is true; while is_active_ is true the connection
\* is open; and the connection is opened only by a successful on_activate
\* and closed only by on_deactivate.
C16_SessionOnlyWhileActive ==
  /\ [](CyclicCalls > 0 => is_active_)
  /\ [](is_active_ => connection_open)
  /\ [][ /\ (~connection_open /\ connection_open') =>
              (lastOp' = "on_activate" /\ lastReturn' = "SUCCESS")
         /\ (connection_open /\ ~connection_open') => lastOp' = "on_deactivate" ]_vars

\* a frame was pulled while active, after a command had been synthesized
C16_Witness ==
  /\ lastOp = "read" /\ lastReturn = "OK" /\ CyclicCalls = 1
  /\ is_active_ /\ connection_open
  /\ robotCommand /= NoCommand
  /\ fri_state_ = "COMMANDING_WAIT"

\* the commanded position of the last cycle of a window
LastCyclePosition ==
  Vec(NUMBER_OF_JOINTS, 40, CycleValues[Len(CycleValues)])

\* C17: a write() made while active that does not run updateCommand leaves
\* the outgoing command message as it was and still sends one frame; in the
\* loop that stores 1, 2, 3, 4 before cycles 1..4 with M = 4, the outgoing
\* message changes only in a write() that is the 4th cycle of its window,
\* and in position-only mode the only position that ever enters it is 4.
C17_RetransmitUnchanged ==
  /\ [][ /\ (is_active_ /\ lastOp' = "write" /\ synth' = 0) =>
              /\ robotCommand' = robotCommand
              /\ Count(calls', "client_app_write") = 1
         /\ robotCommand' /= robotCommand =>
              (lastOp' = "write" /\ synth' = 1 /\ run' = Len(CycleValues)) ]_vars
  /\ [](~torque_command_mode_ =>
          robotCommand.jointPosition \in {NoCommand.jointPosition, LastCyclePosition})

\* the third cycle of a second window: the message still holds the 4 of the
\* first window while the buffer holds 3
C17_Witness ==
  /\ lastOp = "write" /\ is_active_ /\ synth = 0
  /\ ~torque_command_mode_
  /\ run = 3
  /\ hw_commands_ = Vec(NUMBER_OF_JOINTS, 40, 3)
  /\ robotCommand.jointPosition = LastCyclePosition

\* C18: after a read() that returned OK, the measured position and effort
\* buffers equal the frame's measured position and torque in every element,
\* and fri_state_ and tracking_performance_ are that frame's values.
C18_ReadCopiesFrame ==
  (lastOp = "read" /\ lastReturn = "OK") =>
     /\ is_active_
     /\ Len(hw_states_) = NUMBER_OF_JOINTS /\ Len(hw_torques_) = NUMBER_OF_JOINTS
     /\ \A i \in 1..NUMBER_OF_JOINTS :
          /\ hw_states_[i] = robotState.measuredJointPosition[i]
          /\ hw_torques_[i] = robotState.measuredTorque[i]
     /\ fri_state_ = robotState.sessionState
     /\ tracking_performance_ = robotState.trackingPerformance

\* a second frame, different from the first in every value, was read
C18_Witness ==
  /\ lastOp = "read" /\ lastReturn = "OK"
  /\ robotState = Frame(2)
  /\ hw_states_ = Frame(2).measuredJointPosition
  /\ hw_torques_ = Frame(2).measuredTorque
  /\ robotCommand /= NoCommand

\* C20: a read() call, whatever its outcome, leaves is_active_, the cycle
\* counter, the multiplier, both command buffers and the session's command
\* record exactly as they were.
C20_ReadKeepsCommandSide ==
  [][lastOp' = "read" =>
       UNCHANGED <<is_active_, receive_counter_, receive_multiplier_,
                   hw_commands_, hw_effort_command_, robotCommand>>]_vars

\* a successful read of a non-zero frame with the counter mid-window, stored
\* commands that differ from the measurement and a synthesized command record
C20_Witness ==
  /\ lastOp = "read" /\ lastReturn = "OK"
  /\ robotState = Frame(1)
  /\ receive_counter_ = 1 /\ receive_multiplier_ = 2
  /\ hw_commands_ = Vec(NUMBER_OF_JOINTS, 40, 1)
  /\ robotCommand /= NoCommand

\* number of command and waitForCommand callbacks in the current window
WindowCallbacks == windowCalls.command + windowCalls.waitForCommand

\* C19: with M fixed, a write() that fired command() or waitForCommand()
\* synthesized a command exactly when it was the M-th callback of its window,
\* the callbacks of both kinds counted together, and receive_counter_ is
\* that count modulo M, whatever the order of the two kinds in the window.
C19_SharedCounter ==
  (lastOp = "write" /\ Throttled) =>
     /\ WindowCallbacks \in 1..receive_multiplier_
     /\ synth = 1 <=> WindowCallbacks = receive_multiplier_
     /\ receive_counter_ = WindowCallbacks % receive_multiplier_

\* the window began in the wait-for-command phase and was completed by a
\* command() callback, which synthesized
C19_Witness ==
  /\ lastOp = "write" /\ callback = "command" /\ synth = 1
  /\ receive_multiplier_ = MaxWindow
  /\ windowCalls.waitForCommand >= 1
  /\ windowCalls.command >= 1

====
